---- MODULE Spec2Model ----
(***************************************************************************)
(* Weather API (src/Weather-app.py): the route GET /weather/{city}, its    *)
(* handler get_weather and the generator WeatherService.fetch_weather_data.*)
(*                                                                         *)
(* A string is a sequence of characters, a character a one-element token.  *)
(* Two tokens stand for non-ASCII code points: "U0130" (capital I with dot *)
(* above) and "U0307" (combining dot above), the pair str.lower() turns    *)
(* U+0130 into.  A float is an integer count of hundredths.                *)
(***************************************************************************)
EXTENDS Integers, Sequences, FiniteSets, TLC

VARIABLES
  pc,               \* where request r is: "idle" (not sent), "sleeping" (suspended
                    \* in asyncio.sleep), "done" (answered), "escaped" (an
                    \* exception left get_weather)
  city,             \* the city path parameter of request r
  normalized_city,  \* the local normalized_city of the suspended call of r
  calls,            \* how often request r invoked fetch_weather_data
  nresp,            \* how many responses request r got
  resp,             \* the response of request r: status with detail or body
  prev,             \* the city field the client sent back as the city of r
  exc               \* the exception raised in the try block of request r

vars == <<pc, city, normalized_city, calls, nresp, resp, prev, exc>>

(* ------------------------------ bounds --------------------------------- *)

\* Number of request slots that can be in flight together.
MaxReq == 2

\* The random source is sampled at the points k/Grain, k in 0..Grain.
Grain == 3

\* Longest generated city string of the normalization specification.
MaxLen == 3

\* Hundredths: one decimal digit finer than round(x, 1) keeps.
Scale == 10 * 10

Requests == 1..MaxReq

Unit == 0..Grain

Low == {0}

(* ---------------------------- characters ------------------------------- *)

LowerLetters ==
  <<"a","b","c","d","e","f","g","h","i","j","k","l","m",
    "n","o","p","q","r","s","t","u","v","w","x","y","z">>

UpperLetters ==
  <<"A","B","C","D","E","F","G","H","I","J","K","L","M",
    "N","O","P","Q","R","S","T","U","V","W","X","Y","Z">>

Range(s) == {s[i] : i \in 1..Len(s)}

IndexOf(c, s) == CHOOSE i \in 1..Len(s) : s[i] = c

IsLowerAscii(c) == c \in Range(LowerLetters)

IsUpperAscii(c) == c \in Range(UpperLetters)

\* The characters str.strip() removes.
IsSpace(c) == c \in {" ", "\t"}

\* Py_UNICODE_ISCASED: letters with case; a combining mark has none.
IsCased(c) == IsLowerAscii(c) \/ IsUpperAscii(c) \/ c = "U0130"

IsAsciiChar(c) == c \notin {"U0130", "U0307"}

\* The full lower-case mapping of one character (a string: U+0130 gives two).
LowerCh(c) ==
  IF IsUpperAscii(c) THEN <<LowerLetters[IndexOf(c, UpperLetters)]>>
  ELSE IF c = "U0130" THEN <<"i", "U0307">>
  ELSE <<c>>

\* The full title-case mapping of one character.
TitleCh(c) ==
  IF IsLowerAscii(c) THEN <<UpperLetters[IndexOf(c, LowerLetters)]>>
  ELSE <<c>>

(* ------------------------------ strings -------------------------------- *)

SetMin(S) == CHOOSE x \in S : \A y \in S : x <= y

SetMax(S) == CHOOSE x \in S : \A y \in S : x >= y

StripOne(s) ==
  LET a == IF s # <<>> /\ IsSpace(Head(s)) THEN Tail(s) ELSE s
  IN  IF a # <<>> /\ IsSpace(a[Len(a)]) THEN SubSeq(a, 1, Len(a) - 1) ELSE a

\* str.strip(): drop leading and trailing whitespace.
Strip(s) ==
  LET keep == {i \in 1..Len(s) : ~IsSpace(s[i])}
  IN  IF keep = {} THEN <<>> ELSE SubSeq(s, SetMin(keep), SetMax(keep))

RECURSIVE TitleRec(_, _)
\* The loop of str.title(): a character that follows a cased one is
\* lower-cased, any other is title-cased.
TitleRec(s, previous_is_cased) ==
  IF s = <<>> THEN <<>>
  ELSE (IF previous_is_cased THEN LowerCh(Head(s)) ELSE TitleCh(Head(s)))
       \o TitleRec(Tail(s), IsCased(Head(s)))

Title(s) == TitleRec(s, FALSE)

RECURSIVE Lower(_)
\* str.lower()
Lower(s) == IF s = <<>> THEN <<>> ELSE LowerCh(Head(s)) \o Lower(Tail(s))

\* sub in s
Contains(s, sub) ==
  \E i \in 1..(Len(s) - Len(sub) + 1) : SubSeq(s, i, i + Len(sub) - 1) = sub

\* not city or not city.strip()
IsBlank(c) == c = <<>> \/ Strip(c) = <<>>

NormalizeCapitalize(c) ==
  LET t == Strip(c)
  IN  IF t = <<>> THEN <<>> ELSE TitleCh(Head(t)) \o Lower(Tail(t))

\* normalized_city = city.strip().title()
Normalize(c) == Title(Strip(c))

(* ----------------------------- generator ------------------------------- *)

weather_descriptions ==
  <<"Sunny", "Partly Cloudy", "Cloudy", "Rainy", "Thunderstorm",
    "Snowy", "Foggy", "Windy", "Clear", "Overcast">>

North == <<"n","o","r","t","h">>
Northern == <<"n","o","r","t","h","e","r","n">>
South == <<"s","o","u","t","h">>
Southern == <<"s","o","u","t","h","e","r","n">>
East == <<"e","a","s","t">>
West == <<"w","e","s","t">>

BaseTempCumulative(n) ==
  LET l == Lower(n)
  IN  20
      - (IF Contains(l, North) \/ Contains(l, Northern) THEN 10 ELSE 0)
      + (IF Contains(l, South) \/ Contains(l, Southern) THEN 10 ELSE 0)
      + (IF Contains(l, East) THEN 2 ELSE 0)
      - (IF Contains(l, West) THEN 2 ELSE 0)

\* base_temp after the if/elif chain, in degrees.
BaseTemp(n) ==
  LET l == Lower(n)
  IN  IF Contains(l, North) \/ Contains(l, Northern) THEN 20 - 10
      ELSE IF Contains(l, South) \/ Contains(l, Southern) THEN 20 + 10
      ELSE IF Contains(l, East) THEN 20 + 2
      ELSE IF Contains(l, West) THEN 20 - 2
      ELSE 20

\* random.uniform(a, b) = a + (b - a) * random(), random() sampled at k/Grain.
Uniform(a, b, k) == a * Scale + ((b - a) * Scale * k) \div Grain

\* random.randint(a, b): both ends included.
RandInt(a, b, k) == a + ((b - a) * k) \div Grain

\* random.choice(seq)
Choice(seq, k) == seq[1 + ((Len(seq) - 1) * k) \div Grain]

RoundNone(x) == x

\* round(x, 1): to the nearest tenth, a tie to the even tenth.
Round1(x) ==
  LET unit == Scale \div 10
      q == x \div unit
      rem == x % unit
  IN  IF 2 * rem < unit THEN q * unit
      ELSE IF 2 * rem > unit THEN (q + 1) * unit
      ELSE IF q % 2 = 0 THEN q * unit ELSE (q + 1) * unit

Fields ==
  {"city", "temperature", "description", "humidity", "pressure",
   "wind_speed", "timestamp"}

WeatherDictNoTimestamp(n, kt, kd, kh, kp, kw) ==
  [city |-> n,
   temperature |-> Round1(BaseTemp(n) * Scale + Uniform(-5, 5, kt)),
   description |-> Choice(weather_descriptions, kd),
   humidity |-> RandInt(30, 90, kh),
   pressure |-> RandInt(980, 1040, kp),
   wind_speed |-> Round1(Uniform(0, 20, kw))]

\* The dict fetch_weather_data returns after the delay, for the random
\* outcomes kt, kd, kh, kp, kw.
WeatherDict(n, kt, kd, kh, kp, kw) ==
  [city |-> n,
   temperature |-> Round1(BaseTemp(n) * Scale + Uniform(-5, 5, kt)),
   description |-> Choice(weather_descriptions, kd),
   humidity |-> RandInt(30, 90, kh),
   pressure |-> RandInt(980, 1040, kp),
   wind_speed |-> Round1(Uniform(0, 20, kw)),
   timestamp |-> "datetime.now().isoformat()"]

\* WeatherData(**weather_data): every declared field must be given.
Validates(d) == Fields \subseteq DOMAIN d

(* ------------------------------ inputs --------------------------------- *)

London == <<"L","o","n","d","o","n">>
LondonLower == <<"l","o","n","d","o","n">>
NewYorkPadded == <<" ","n","e","w"," ","y","o","r","k"," ">>
NewYork == <<"N","e","w"," ","Y","o","r","k">>
NortheastCity == <<"N","o","r","t","h","e","a","s","t"," ","C","i","t","y">>
NorthUpper == <<"N","O","R","T","H">>
SouthNorth == <<"s","o","u","t","h"," ","n","o","r","t","h">>
Southwest == <<"S","o","u","t","h","w","e","s","t">>
SouthernTown == <<"S","o","u","t","h","e","r","n">>
EastWest == <<"e","a","s","t"," ","w","e","s","t">>
WestonPadded == <<" ","W","e","s","t","o","n">>
Eastham == <<"E","a","s","t","h","a","m">>
ONeil == <<"o","'","n","e","i","l">>

BlankCities == {<<>>, <<" ">>, <<"\t", " ">>}

\* The city path parameters the requests of Spec carry.
Cities ==
  BlankCities \cup
  {London, LondonLower, NewYorkPadded, NortheastCity, NorthUpper, SouthNorth,
   Southwest, SouthernTown, EastWest, WestonPadded, Eastham, ONeil}

\* The city path parameters of the concurrent requests.
ConcCities == {<<>>, <<" ">>, London, LondonLower, NewYorkPadded, NortheastCity}

NormAlphabet == {" ", "a", "B", "'", "U0130"}

\* Every string of at most MaxLen characters over NormAlphabet.
NormCities == UNION {[1..m -> NormAlphabet] : m \in 0..MaxLen}

(* ------------------------------ handler -------------------------------- *)

NoResp == [status |-> 0]

NoException == [cls |-> "none", text |-> ""]

NoCity == <<"-">>

EmptyCityDetailOther == "City name is required"

\* detail of the HTTPException raised for a blank city
EmptyCityDetail == "City name cannot be empty"

\* detail=f"Error fetching weather data: {str(e)}"
ErrorDetail(e) == <<"Error fetching weather data: ", e.text>>

\* What the generation step can raise: the HTTPException the docstring of
\* fetch_weather_data announces, and pydantic's ValidationError.
Failures ==
  {[cls |-> "HTTPException", text |-> "404: City not found"],
   [cls |-> "ValidationError", text |-> "field required"]}

CaughtHTTPOnly(e) == e.cls = "HTTPException"

\* except Exception as e
Caught(e) == e.cls \in {"Exception", "HTTPException", "ValidationError"}

IsBlankNoStrip(c) == c = <<>>

\* if not city or not city.strip()
Rejects(c) == IsBlank(c)

RespondNever(r, m) ==
  /\ pc' = pc
  /\ resp' = resp
  /\ nresp' = nresp

\* get_weather returns or raises HTTPException: the one response of request r.
Respond(r, m) ==
  /\ pc' = [pc EXCEPT ![r] = "done"]
  /\ resp' = [resp EXCEPT ![r] = m]
  /\ nresp' = [nresp EXCEPT ![r] = @ + 1]

LocalCityShared(r) ==
  normalized_city[SetMax({q \in Requests : pc[q] = "sleeping"})]

\* normalized_city, a local of the suspended call of request r
LocalCity(r) == normalized_city[r]

\* get_weather(city) up to its first suspension: the blank check, then
\* fetch_weather_data up to "await asyncio.sleep(0.1)".
Handle(r, c) ==
  /\ city' = [city EXCEPT ![r] = c]
  /\ exc' = [exc EXCEPT ![r] = NoException]
  /\ IF Rejects(c)
     THEN /\ pc' = [pc EXCEPT ![r] = "done"]
          /\ resp' = [resp EXCEPT ![r] = [status |-> 400, detail |-> EmptyCityDetail]]
          /\ nresp' = [nresp EXCEPT ![r] = 1]
          /\ calls' = [calls EXCEPT ![r] = 0]
          /\ normalized_city' = [normalized_city EXCEPT ![r] = NoCity]
     ELSE /\ pc' = [pc EXCEPT ![r] = "sleeping"]
          /\ resp' = [resp EXCEPT ![r] = NoResp]
          /\ nresp' = [nresp EXCEPT ![r] = 0]
          /\ calls' = [calls EXCEPT ![r] = 1]
          /\ normalized_city' = [normalized_city EXCEPT ![r] = Normalize(c)]

\* A client sends GET /weather/{c}.
Request(r, c) ==
  /\ pc[r] = "idle"
  /\ Handle(r, c)
  /\ UNCHANGED prev

\* The event loop resumes request r after the delay: the rest of
\* fetch_weather_data, WeatherData(**weather_data), and the response.
Resume(r, U) ==
  /\ pc[r] = "sleeping"
  /\ \E kt \in U, kd \in U, kh \in U, kp \in U, kw \in U :
       LET d == WeatherDict(LocalCity(r), kt, kd, kh, kp, kw)
           e == [cls |-> "ValidationError", text |-> "field required"]
       IN  IF Validates(d)
           THEN /\ Respond(r, [status |-> 200, body |-> d])
                /\ UNCHANGED exc
           ELSE /\ exc' = [exc EXCEPT ![r] = e]
                /\ IF Caught(e)
                   THEN Respond(r, [status |-> 500, detail |-> ErrorDetail(e)])
                   ELSE /\ pc' = [pc EXCEPT ![r] = "escaped"]
                        /\ UNCHANGED <<resp, nresp>>
  /\ UNCHANGED <<city, normalized_city, calls, prev>>

\* The generation step of request r raises e inside the try block.
Fault(r, e) ==
  /\ pc[r] = "sleeping"
  /\ exc' = [exc EXCEPT ![r] = e]
  /\ IF Caught(e)
     THEN Respond(r, [status |-> 500, detail |-> ErrorDetail(e)])
     ELSE /\ pc' = [pc EXCEPT ![r] = "escaped"]
          /\ UNCHANGED <<resp, nresp>>
  /\ UNCHANGED <<city, normalized_city, calls, prev>>

\* The client sends the city field of the 200 response of r back as the city
\* of a new request.
Resend(r) ==
  /\ pc[r] = "done"
  /\ resp[r].status = 200
  /\ prev' = [prev EXCEPT ![r] = resp[r].body.city]
  /\ Handle(r, resp[r].body.city)

(* --------------------------- specifications ---------------------------- *)

Init ==
  /\ pc = [r \in Requests |-> "idle"]
  /\ city = [r \in Requests |-> <<>>]
  /\ normalized_city = [r \in Requests |-> NoCity]
  /\ calls = [r \in Requests |-> 0]
  /\ nresp = [r \in Requests |-> 0]
  /\ resp = [r \in Requests |-> NoResp]
  /\ prev = [r \in Requests |-> NoCity]
  /\ exc = [r \in Requests |-> NoException]

\* One request, every sampled outcome of the random source.
Next ==
  \/ \E c \in Cities : Request(1, c)
  \/ Resume(1, Unit)

Spec == Init /\ [][Next]_vars

\* One request whose generation step may raise.
NextFault ==
  \/ \E c \in Cities : Request(1, c)
  \/ Resume(1, Unit)
  \/ \E e \in Failures : Fault(1, e)

SpecFault == Init /\ [][NextFault]_vars

\* One client that sends city fields back.
NextNorm ==
  \/ \E c \in NormCities : Request(1, c)
  \/ Resume(1, Low)
  \/ Resend(1)

SpecNorm == Init /\ [][NextNorm]_vars

\* MaxReq requests in flight, resumed in any order.
NextConc ==
  \/ \E r \in Requests, c \in ConcCities : Request(r, c)
  \/ \E r \in Requests : Resume(r, Low)

SpecConc == Init /\ [][NextConc]_vars

\* The event loop resumes every suspended request.
SpecFair == SpecConc /\ \A r \in Requests : WF_vars(Resume(r, Low))

(* ------------------------------- claims -------------------------------- *)

Answered(r) == pc[r] = "done"

Ok(r) == Answered(r) /\ resp[r].status = 200

OnlyWhitespace(c) == \A i \in 1..Len(c) : c[i] \in {" ", "\t"}

IsAscii(c) == \A i \in 1..Len(c) : IsAsciiChar(c[i])

TenLabels ==
  {"Sunny", "Partly Cloudy", "Cloudy", "Rainy", "Thunderstorm", "Snowy",
   "Foggy", "Windy", "Clear", "Overcast"}

\* C1: a request whose city is empty or all whitespace is answered 400, and
\* fetch_weather_data is never invoked for it.
C1_BlankRejected ==
  \A r \in Requests :
    (pc[r] # "idle" /\ OnlyWhitespace(city[r])) =>
      /\ Answered(r)
      /\ resp[r].status = 400
      /\ calls[r] = 0

C1_Witness ==
  \E r \in Requests :
    Answered(r) /\ city[r] = <<"\t", " ">> /\ resp[r].status = 400 /\ calls[r] = 0

\* C2 as stated: every 400 response carries the text with the final period.
C2_DetailWithPeriod ==
  \A r \in Requests :
    (Answered(r) /\ resp[r].status = 400) =>
      resp[r].detail = "City name cannot be empty."

\* C2 as amended: every 400 response carries the same fixed text, which is
\* "City name cannot be empty" without a final period.
C2_DetailNoPeriod ==
  \A r \in Requests :
    (Answered(r) /\ resp[r].status = 400) =>
      resp[r].detail = "City name cannot be empty"

C2_Witness ==
  \E r \in Requests :
    Answered(r) /\ city[r] = <<" ">> /\ resp[r].status = 400
                /\ resp[r].detail = "City name cannot be empty"

\* C3: a request whose city is not blank is answered 200 with the city field
\* the input stripped and then title-cased ("London" gives "London") and a
\* description among the ten labels.
C3_OkCityAndLabel ==
  \A r \in Requests :
    (Answered(r) /\ ~OnlyWhitespace(city[r])) =>
      /\ resp[r].status = 200
      /\ resp[r].body.city = Title(Strip(city[r]))
      /\ city[r] = London => resp[r].body.city = London
      /\ city[r] = LondonLower => resp[r].body.city = London
      /\ city[r] = NewYorkPadded => resp[r].body.city = NewYork
      /\ resp[r].body.description \in TenLabels

C3_Witness ==
  \E r \in Requests :
    Ok(r) /\ city[r] = London /\ resp[r].body.city = London
          /\ resp[r].body.description = "Overcast"

\* C4: every record has humidity in [30, 90], pressure in [980, 1040], wind
\* speed in [0, 20] and a temperature with one decimal place (a whole number
\* of tenths).
C4_Ranges ==
  \A r \in Requests :
    Ok(r) =>
      LET b == resp[r].body
      IN  /\ b.humidity \in 30..90
          /\ b.pressure \in 980..1040
          /\ b.wind_speed >= 0 /\ b.wind_speed <= 20 * Scale
          /\ b.temperature % (Scale \div 10) = 0
          /\ b.wind_speed % (Scale \div 10) = 0

\* A record whose offset -5 + 10/3 was rounded from -1.67 to -1.7.
C4_Witness ==
  \E r \in Requests :
    Ok(r) /\ city[r] = London
          /\ resp[r].body.temperature = 20 * Scale - 170
          /\ resp[r].body.humidity = 90
          /\ resp[r].body.pressure = 980

\* The base the claim gives for a normalized name.
ClaimedBase(n) ==
  LET l == Lower(n)
      north == Contains(l, North)
      south == Contains(l, South)
      east == Contains(l, East)
      west == Contains(l, West)
  IN  CASE north -> 10
        [] south /\ ~north -> 30
        [] east /\ ~north /\ ~south -> 22
        [] west /\ ~north /\ ~south /\ ~east -> 18
        [] ~north /\ ~south /\ ~east /\ ~west -> 20

Within5(t, base) == t >= (base - 5) * Scale /\ t <= (base + 5) * Scale

\* C5: exactly one directional adjustment applies, by the priority north,
\* south, east, west: the temperature is within 5 degrees of 10, 30, 22, 18
\* or 20, and "Northeast City" gets the north adjustment alone.
C5_ExclusiveAdjustment ==
  \A r \in Requests :
    Ok(r) =>
      /\ Within5(resp[r].body.temperature, ClaimedBase(resp[r].body.city))
      /\ city[r] = NortheastCity => Within5(resp[r].body.temperature, 10)

C5_Witness ==
  \E r \in Requests :
    Ok(r) /\ city[r] = NortheastCity /\ resp[r].body.temperature = 15 * Scale

\* What request r alone determines of its response.
OwnOutcome(r) ==
  IF OnlyWhitespace(city[r])
  THEN resp[r].status = 400
  ELSE resp[r].status = 200 /\ resp[r].body.city = Title(Strip(city[r]))

\* A step changes the state of at most one request.
OneRequestMoves ==
  \A r \in Requests :
    (pc'[r] # pc[r] \/ resp'[r] # resp[r]) =>
      \A q \in Requests \ {r} :
        /\ pc'[q] = pc[q]
        /\ resp'[q] = resp[q]
        /\ normalized_city'[q] = normalized_city[q]
        /\ city'[q] = city[q]

\* C6: under any interleaving, the status and city field of each response
\* are those its own city input determines, and a step of one request leaves
\* every other request as it was.
C6_Independent ==
  /\ [](\A r \in Requests : Answered(r) => OwnOutcome(r))
  /\ [][OneRequestMoves]_vars

\* Request 1 is still suspended while request 2 has been answered.
C6_Witness ==
  /\ pc[1] = "sleeping" /\ city[1] = London
  /\ Ok(2) /\ city[2] = NortheastCity /\ resp[2].body.city = NortheastCity

CompleteResponse(r) ==
  /\ nresp[r] = 1
  /\ resp[r].status \in {200, 400, 500}
  /\ resp[r].status = 200 => DOMAIN resp[r].body = Fields

\* C7: every received request gets exactly one response, 200 with a complete
\* record, 400 or 500: a request is idle, suspended or answered, it is not
\* suspended forever, it is not answered twice and its answer never changes.
C7_ExactlyOneResponse ==
  /\ [](\A r \in Requests :
          /\ pc[r] \in {"idle", "sleeping", "done"}
          /\ Answered(r) => CompleteResponse(r)
          /\ ~Answered(r) => (nresp[r] = 0 /\ resp[r] = NoResp))
  /\ [][\A r \in Requests :
          Answered(r) => (pc'[r] = pc[r] /\ resp'[r] = resp[r] /\ nresp'[r] = nresp[r])]_vars
  /\ \A r \in Requests : []<>(pc[r] # "sleeping")

C7_Witness ==
  /\ \A r \in Requests : Answered(r) /\ nresp[r] = 1
  /\ resp[1].status = 200 /\ DOMAIN resp[1].body = Fields
  /\ resp[2].status = 400

Echoed(r) == prev[r] # NoCity /\ Answered(r)

\* C10 as stated: for every city string, the city field of a 200 response
\* sent back as a city is answered with the same city field.
C10_Idempotent ==
  \A r \in Requests :
    Echoed(r) => (resp[r].status = 200 /\ resp[r].body.city = prev[r])

\* C10 as amended: for every city string of ASCII characters, the city field
\* of a 200 response sent back as a city is answered with the same city field.
C10_IdempotentAscii ==
  \A r \in Requests :
    (Echoed(r) /\ IsAscii(prev[r])) =>
      (resp[r].status = 200 /\ resp[r].body.city = prev[r])

C10_Witness ==
  \E r \in Requests :
    /\ Echoed(r)
    /\ city[r] = <<"A", "'", "B">>
    /\ prev[r] = <<"A", "'", "B">>
    /\ resp[r].status = 200
    /\ resp[r].body.city = <<"A", "'", "B">>

====
